---- MODULE Spec2Model ----
(***************************************************************************)
(* Model of assertions_mate: the hint resolver (__init__.py), the          *)
(* orchestration of one workflow (cli.py, _scan_workflow) and the CQL2     *)
(* and Rego validators (cql2_validator.py, rego_validator.py).             *)
(*                                                                         *)
(* Strings that the code inspects character-wise (the class discriminator *)
(* of a hint record) are sequences of tokens; ":" is a token of its own    *)
(* and no other token contains a colon or a part of "eoap:".               *)
(***************************************************************************)
EXTENDS Integers, Sequences, FiniteSets, TLC

VARIABLES
    hints,            \* workflow.hints, the raw hint records
    inputs,           \* the input mapping given to _scan_workflow
    pc,               \* position inside _scan_workflow
    i,                \* index of the loop the run is in
    assertion_hints,  \* extract_assertion_hints: the list being built
    hint_from,        \* index in hints of the record each resolved hint comes from
    validators,       \* _scan_workflow: the built validators
    built_from,       \* index in assertion_hints each built validator comes from
    build_tried,      \* indexes of assertion_hints whose validator() was called
    executed,         \* validate_inputs invocations so far: [validator, data, from]
    outcomes,         \* what each validate_inputs invocation returned
    ret,              \* what _scan_workflow returned to its caller
    raised,           \* the exception that left _scan_workflow, "" if none
    self_queries,     \* Cql2Validator.queries
    data,             \* argument of Cql2Validator.validate_inputs
    vpc,              \* position inside Cql2Validator.validate_inputs
    n,                \* index of the query the for loop is at
    errors_list,      \* validate_inputs: the error details collected
    parsed,           \* indexes of the queries handed to a parser
    evaluated,        \* indexes of the queries whose predicate was evaluated
    result,           \* what validate_inputs returned
    wf_types,         \* the input types the workflow declares
    built_types,      \* the workflow's types at each validator() call
    instance,         \* a validator instance its owner keeps calling
    rego_input,       \* the input the instance's interpreter holds
    calls             \* the validate_inputs calls made on the instance

scanVars == <<hints, inputs, pc, i, assertion_hints, hint_from, validators,
              built_from, build_tried, executed, outcomes, ret, raised>>
cqlVars == <<self_queries, data, vpc, n, errors_list, parsed, evaluated, result>>
wfVars == <<wf_types, built_types>>
callVars == <<instance, rego_input, calls>>
vars == <<hints, inputs, pc, i, assertion_hints, hint_from, validators,
          built_from, build_tried, executed, outcomes, ret, raised,
          self_queries, data, vpc, n, errors_list, parsed, evaluated, result,
          wf_types, built_types, instance, rego_input, calls>>

(* ------------------------------ bounds -------------------------------- *)

MaxHints == 3
MaxQueries == 2
MaxCalls == 2

(* ------------------------------ strings ------------------------------- *)

\* Python: sub in s
Contains(s, sub) ==
    \E k \in 0..(Len(s) - Len(sub)) : SubSeq(s, k + 1, k + Len(sub)) = sub

StartsWith(s, p) ==
    Len(s) >= Len(p) /\ SubSeq(s, 1, Len(p)) = p

\* Python: s.split(':')[-1]
SplitLast(s) ==
    LET colons == {k \in 1..Len(s) : s[k] = ":"}
        last == IF colons = {} THEN 0
                ELSE CHOOSE k \in colons : \A m \in colons : m <= k
    IN SubSeq(s, last + 1, Len(s))

NamespacePrefix == <<"eoap", ":">>

(* ------------------------- external engines --------------------------- *)

Data == {"d1", "d2"}

\* A CQL2 expression is known by what the engines do with it: the shape of
\* the value, whether its parser accepts it, and what its predicate gives.
CqlShape(e) ==
    CASE e \in {"t_pass", "t_area", "t_bad", "t_crash"} -> "str"
      [] e \in {"j_fail", "j_bad"} -> "dict"
      [] OTHER -> "other"

\* parse_cql2_text / parse_cql2_json: TRUE when an AST comes back, FALSE
\* when the parser raises.
CqlParses(e) == e \in {"t_pass", "t_area", "t_crash", "j_fail"}

\* self.evaluator.evaluate(ast)(data): "true", "false" or "raise"
CqlPredicate(e, d) ==
    CASE e = "t_pass" -> "true"
      [] e = "t_area" -> IF d = "d1" THEN "true" ELSE "false"
      [] e = "j_fail" -> "false"
      [] OTHER -> "raise"

CqlExprs == {"t_pass", "t_area", "t_bad", "t_crash", "j_fail", "j_bad", "x_num"}

\* regopy Interpreter.add_module: FALSE when the module is rejected
RegoModuleLoads(module) == module # "modBad"

\* regopy Interpreter.query after set_input(d): the result rows, each row
\* the list of its expressions; raise |-> TRUE when the engine fails.
RegoQuery(module, query, d) ==
    CASE query = "deny" ->
            [raise |-> FALSE,
             rows |-> IF d = "d2" THEN << <<"too big", "x">> >> ELSE << >>]
      [] query = "warn" ->
            [raise |-> FALSE, rows |-> << << >>, <<"w1">>, <<"w2">> >>]
      [] query = "allow" -> [raise |-> FALSE, rows |-> << >>]
      [] OTHER -> [raise |-> TRUE, rows |-> << >>]

WorkflowTypes == {"tA", "tB"}

\* BaseCWLtypes2OGCConverter(workflow).get_inputs_json_schema(): the
\* schema of the types the workflow declares when the call is made
GetInputsJsonSchema ==
    IF wf_types = "tA" THEN "sWorkflow" ELSE "sWorkflowB"

\* JSONSchemaValidator(schema=schema): FALSE when the schema is rejected
SchemaLoads(schema) == schema # "sBad"

\* JSONSchemaValidator.validate_inputs: the violating locations in d
SchemaViolations(schema, d) ==
    CASE schema = "sWorkflow" -> IF d = "d2" THEN <<"/x">> ELSE << >>
      [] schema = "sInline" -> <<"/y">>
      [] OTHER -> << >>

(* --------------------------- error models ----------------------------- *)

ErrorDetail(pointer, detail) == [pointer |-> pointer, detail |-> detail]

ParseErrorText == "Filter does not look like a valid CQL2 Text encoded sentece"
ParseErrorJson == "Filter does not look like a valid CQL2 JSON encoded structure"
FormatError == "Filter is expressed in an unrecognizible format"

NoErrors == << >>

\* BadRequest(errors=errors_list) in the place of BusinessRuleViolation
BadRequest(errors) ==
    [kind |-> "report",
     type |-> "https://problems-registry.smartbear.com/bad-request",
     status |-> 400,
     title |-> "Bad Request",
     errors |-> errors]

\* BusinessRuleViolation(errors=errors_list)
BusinessRuleViolation(errors) ==
    [kind |-> "report",
     type |-> "https://problems-registry.smartbear.com/business-rule-violation",
     status |-> 422,
     title |-> "Business Rule Violation",
     errors |-> errors]

ReturnNone == [kind |-> "none", type |-> "", status |-> 0, title |-> "",
               errors |-> NoErrors]

Raise == [kind |-> "raise", type |-> "", status |-> 0, title |-> "",
          errors |-> NoErrors]

(* ---------------------------- Cql2Validator --------------------------- *)

Cql2Query(id, cql2, message) == [id |-> id, cql2 |-> cql2, message |-> message]

\* Cql2Step reporting a false predicate with the query id as its detail
Cql2StepDetailIsId(errs, filter, d) ==
    LET shape == CqlShape(filter.cql2)
        isParsed == shape \in {"str", "dict"}
        hasAst == isParsed /\ CqlParses(filter.cql2)
        afterParse ==
            CASE shape = "str" /\ ~hasAst ->
                    Append(errs, ErrorDetail(filter.id, ParseErrorText))
              [] shape = "dict" /\ ~hasAst ->
                    Append(errs, ErrorDetail(filter.id, ParseErrorJson))
              [] shape = "other" ->
                    Append(errs, ErrorDetail(filter.id, FormatError))
              [] OTHER -> errs
        predicate == IF hasAst THEN CqlPredicate(filter.cql2, d) ELSE "none"
    IN [errors |-> IF predicate = "false"
                   THEN Append(afterParse, ErrorDetail(filter.id, filter.id))
                   ELSE afterParse,
        parsed |-> isParsed,
        evaluated |-> hasAst,
        raise |-> predicate = "raise"]

\* Cql2Step without the try blocks around the parsers: a parse failure
\* leaves validate_inputs
Cql2StepParseRaises(errs, filter, d) ==
    LET shape == CqlShape(filter.cql2)
        isParsed == shape \in {"str", "dict"}
        hasAst == isParsed /\ CqlParses(filter.cql2)
        afterParse ==
            IF shape = "other"
            THEN Append(errs, ErrorDetail(filter.id, FormatError)) ELSE errs
        predicate == IF hasAst THEN CqlPredicate(filter.cql2, d) ELSE "none"
    IN [errors |-> IF predicate = "false"
                   THEN Append(afterParse, ErrorDetail(filter.id, filter.message))
                   ELSE afterParse,
        parsed |-> isParsed,
        evaluated |-> hasAst,
        raise |-> predicate = "raise" \/ (isParsed /\ ~hasAst)]

\* One iteration of the for loop of Cql2Validator.validate_inputs on the
\* query `filter`: the error list afterwards, whether a parser was called,
\* whether the predicate was evaluated, and whether the iteration raised.
Cql2Step(errs, filter, d) ==
    LET shape == CqlShape(filter.cql2)
        isParsed == shape \in {"str", "dict"}
        hasAst == isParsed /\ CqlParses(filter.cql2)
        afterParse ==
            CASE shape = "str" /\ ~hasAst ->
                    Append(errs, ErrorDetail(filter.id, ParseErrorText))
              [] shape = "dict" /\ ~hasAst ->
                    Append(errs, ErrorDetail(filter.id, ParseErrorJson))
              [] shape = "other" ->
                    Append(errs, ErrorDetail(filter.id, FormatError))
              [] OTHER -> errs
        predicate == IF hasAst THEN CqlPredicate(filter.cql2, d) ELSE "none"
    IN [errors |-> IF predicate = "false"
                   THEN Append(afterParse, ErrorDetail(filter.id, filter.message))
                   ELSE afterParse,
        parsed |-> isParsed,
        evaluated |-> hasAst,
        raise |-> predicate = "raise"]

\* ReturnOf without the "if errors_list:" test
ReturnOfAlwaysReport(errs) == BusinessRuleViolation(errs)

\* The return statement of a validate_inputs: a report when errors were
\* collected, None otherwise.
ReturnOf(errs) ==
    IF errs # << >> THEN BusinessRuleViolation(errs) ELSE ReturnNone

RECURSIVE Cql2Loop(_, _, _, _)
Cql2Loop(queries, k, errs, d) ==
    IF k > Len(queries) THEN ReturnOf(errs)
    ELSE LET step == Cql2Step(errs, queries[k], d)
         IN IF step.raise THEN Raise
            ELSE Cql2Loop(queries, k + 1, step.errors, d)

\* Cql2Validator.validate_inputs as one call
Cql2ValidateInputs(queries, d) == Cql2Loop(queries, 1, << >>, d)

(* ---------------------------- RegoValidator --------------------------- *)

\* self.rego.set_input(data) with a guard that keeps an input already set
SetInputOnce(current, d) == IF current = "unset" THEN d ELSE current

\* self.rego.set_input(data): the input the interpreter holds afterwards
SetInput(current, d) == d

\* RegoRows taking the last expression of a row as the detail
RECURSIVE RegoRowsLastExpression(_, _, _, _)
RegoRowsLastExpression(rows, k, query, errs) ==
    IF k > Len(rows) THEN errs
    ELSE RegoRowsLastExpression(rows, k + 1, query,
             IF rows[k] = << >> THEN errs
             ELSE Append(errs, ErrorDetail(query, rows[k][Len(rows[k])])))

RECURSIVE RegoRows(_, _, _, _)
RegoRows(rows, k, query, errs) ==
    IF k > Len(rows) THEN errs
    ELSE RegoRows(rows, k + 1, query,
                  IF rows[k] = << >> THEN errs
                  ELSE Append(errs, ErrorDetail(query, rows[k][1])))

RECURSIVE RegoLoop(_, _, _, _, _)
RegoLoop(module, queries, k, errs, d) ==
    IF k > Len(queries) THEN ReturnOf(errs)
    ELSE LET res == RegoQuery(module, queries[k], d)
         IN IF res.raise THEN Raise
            ELSE RegoLoop(module, queries, k + 1,
                          RegoRows(res.rows, 1, queries[k], errs), d)

\* RegoValidator.validate_inputs as one call
RegoValidateInputs(module, queries, d) == RegoLoop(module, queries, 1, << >>, d)

(* ------------------------- JSONSchemaValidator ------------------------ *)

RECURSIVE SchemaErrors(_, _)
SchemaErrors(locations, k) ==
    IF k > Len(locations) THEN << >>
    ELSE <<ErrorDetail(locations[k], "schema violation")>>
         \o SchemaErrors(locations, k + 1)

JSONSchemaValidateInputs(schema, d) ==
    ReturnOf(SchemaErrors(SchemaViolations(schema, d), 1))

(* ------------------------------ hint model ---------------------------- *)

\* A raw hint record of workflow.hints.  isdict tells a field mapping from
\* an opaque value; keys are the fields the mapping has; the other fields
\* are the values under those keys (read only when the key is present).
\* qtype is the shape of the value under "queries": "strs" a list of
\* strings, "cqls" a list of {id, cql2, message} records.
HintRecord(isdict, keys, class, json_schema, module, qtype, strs, cqls, q) ==
    [isdict |-> isdict, keys |-> keys, class |-> class,
     json_schema |-> json_schema, module |-> module, qtype |-> qtype,
     queries_str |-> strs, queries_cql |-> cqls,
     id |-> q.id, cql2 |-> q.cql2, message |-> q.message]

NoQuery == Cql2Query("", "", "")

\* The names bound at module level in assertions_mate/__init__.py, which
\* globals() maps to objects.
GlobalNames ==
    {"ProblemDetails", "ABC", "abstractmethod", "BaseCWLtypes2OGCConverter",
     "logger", "BaseModel", "computed_field", "model_serializer",
     "Any", "List", "Mapping", "Optional",
     "BaseValidator", "AssertionHint", "JSONSchemaHint", "RegoPolicyHint",
     "Cql2Query", "Cql2FilterHint",
     "_get_assertion_hint_by_name", "extract_assertion_hints"}

HintKinds == {"JSONSchemaHint", "RegoPolicyHint", "Cql2FilterHint"}

\* pydantic validation of a cql2 field: str | Mapping[str, Any]
Cql2FieldValid(e) == CqlShape(e) \in {"str", "dict"}

\* hint_kind(parent_workflow=parent_workflow, **hint) succeeds: the call
\* is well formed and pydantic accepts the fields (unknown keys, such as
\* "class", are ignored by the models).
Constructs(name, hint) ==
    /\ "parent_workflow" \notin hint.keys
    /\ CASE name = "JSONSchemaHint" -> TRUE
         [] name = "RegoPolicyHint" ->
                /\ {"module", "queries"} \subseteq hint.keys
                /\ hint.qtype = "strs"
         [] name = "Cql2FilterHint" ->
                /\ "queries" \in hint.keys
                /\ hint.qtype = "cqls"
                /\ \A k \in 1..Len(hint.queries_cql) :
                       Cql2FieldValid(hint.queries_cql[k].cql2)
         [] name = "Cql2Query" ->
                /\ {"id", "cql2", "message"} \subseteq hint.keys
                /\ Cql2FieldValid(hint.cql2)
         [] name = "ProblemDetails" -> "detail" \in hint.keys
         [] OTHER -> FALSE

\* The object hint_kind(parent_workflow=parent_workflow, **hint) builds.
\* Only the AssertionHint classes have a parent_workflow field; any other
\* model ignores the keyword and the object carries no workflow.
Instance(name, parent_workflow, hint) ==
    [kind |-> name,
     parent_workflow |-> name \in HintKinds /\ parent_workflow,
     json_schema |-> IF name = "JSONSchemaHint" /\ "json_schema" \in hint.keys
                     THEN hint.json_schema ELSE "sEmpty",
     module |-> IF name = "RegoPolicyHint" THEN hint.module ELSE "",
     queries_str |-> IF name = "RegoPolicyHint" THEN hint.queries_str ELSE << >>,
     queries_cql |-> IF name = "Cql2FilterHint" THEN hint.queries_cql ELSE << >>,
     id |-> IF name = "Cql2Query" THEN hint.id ELSE "",
     cql2 |-> IF name = "Cql2Query" THEN hint.cql2 ELSE "",
     message |-> IF name = "Cql2Query" THEN hint.message ELSE ""]

NoHint == [kind |-> "None", parent_workflow |-> FALSE, json_schema |-> "",
           module |-> "", queries_str |-> << >>, queries_cql |-> << >>,
           id |-> "", cql2 |-> "", message |-> ""]

\* hint.annotation: the value get_annotation_name() of the class returns,
\* as a string of one token (it holds no ":"); << >> for an object that
\* has no annotation
Annotation(hint) ==
    CASE hint.kind = "JSONSchemaHint" -> <<"eoap.ogc.org/inputs-json-schema">>
      [] hint.kind = "RegoPolicyHint" -> <<"eoap.ogc.org/inputs-rego-policy">>
      [] hint.kind = "Cql2FilterHint" -> <<"eoap.ogc.org/inputs-cql2-filter">>
      [] OTHER -> << >>

\* the top-level keys of a schema mapping ({} has none)
SchemaKeys(schema) ==
    IF schema = "sEmpty" THEN {} ELSE {"$schema", "type", "properties"}

\* ser_model: the mapping a hint object serialises to, as a record of the
\* shape of workflow.hints.  A schema hint gives the schema mapping itself
\* (its keys are the schema's keys), a policy hint {queries, module}, a
\* filter hint {queries}; a Cql2Query has the default serialiser.
SerModel(hint) ==
    CASE hint.kind = "JSONSchemaHint" ->
            HintRecord(TRUE,
                       SchemaKeys(IF hint.parent_workflow
                                  THEN GetInputsJsonSchema
                                  ELSE hint.json_schema),
                       << >>, "", "", "none", << >>, << >>, NoQuery)
      [] hint.kind = "RegoPolicyHint" ->
            HintRecord(TRUE, {"queries", "module"}, << >>, "", hint.module,
                       "strs", hint.queries_str, << >>, NoQuery)
      [] hint.kind = "Cql2FilterHint" ->
            HintRecord(TRUE, {"queries"}, << >>, "", "", "cqls", << >>,
                       hint.queries_cql, NoQuery)
      [] OTHER ->
            HintRecord(TRUE, {"parent_workflow", "id", "cql2", "message"},
                       << >>, "", "", "none", << >>, << >>,
                       Cql2Query(hint.id, hint.cql2, hint.message))

\* if 'eoap:' in fqn_hint_kind
IsCandidate(fqn_hint_kind) == Contains(fqn_hint_kind, NamespacePrefix)

\* hint_kind = globals()[hint_kind_name]: TRUE when the name is bound
LooksUp(hint_kind_name) ==
    Len(hint_kind_name) = 1 /\ hint_kind_name[1] \in GlobalNames

\* _get_assertion_hint_by_name: exc is the exception that leaves the
\* function ("" when it returns), hint the object returned (NoHint for None)
GetAssertionHintByName(parent_workflow, hint) ==
    IF "class" \notin hint.keys
    THEN [exc |-> "KeyError", hint |-> NoHint]
    ELSE LET fqn_hint_kind == hint.class
             hint_kind_name == SplitLast(fqn_hint_kind)
         IN IF IsCandidate(fqn_hint_kind)
                 /\ LooksUp(hint_kind_name)
                 /\ Constructs(hint_kind_name[1], hint)
            THEN [exc |-> "",
                  hint |-> Instance(hint_kind_name[1], parent_workflow, hint)]
            ELSE [exc |-> "", hint |-> NoHint]

\* ExtractStep without the isinstance(hint, dict) test
ExtractStepResolvesOpaque(acc, hint) ==
    LET r == GetAssertionHintByName(TRUE, hint)
    IN [exc |-> r.exc,
        hints |-> IF r.exc = "" /\ r.hint # NoHint
                  THEN Append(acc, r.hint) ELSE acc]

\* ExtractStep with the resolved hint put at the front of the list
ExtractStepPrepends(acc, hint) ==
    IF ~hint.isdict THEN [exc |-> "", hints |-> acc]
    ELSE LET r == GetAssertionHintByName(TRUE, hint)
         IN [exc |-> r.exc,
             hints |-> IF r.exc = "" /\ r.hint # NoHint
                       THEN <<r.hint>> \o acc ELSE acc]

\* One iteration of the for loop of extract_assertion_hints
ExtractStep(acc, hint) ==
    IF ~hint.isdict THEN [exc |-> "", hints |-> acc]
    ELSE LET r == GetAssertionHintByName(TRUE, hint)
         IN [exc |-> r.exc,
             hints |-> IF r.exc = "" /\ r.hint # NoHint
                       THEN Append(acc, r.hint) ELSE acc]

(* ------------------------- hint -> validator -------------------------- *)

NoValidator == [kind |-> "None", schema |-> "", module |-> "",
                queries_str |-> << >>, queries_cql |-> << >>]

\* Validator with the schema hint always read from the declaration
ValidatorFromDeclaration(hint) ==
    CASE hint.kind = "JSONSchemaHint" ->
            [ok |-> SchemaLoads(hint.json_schema),
             v |-> [NoValidator EXCEPT !.kind = "JSONSchemaValidator",
                                       !.schema = hint.json_schema]]
      [] hint.kind = "RegoPolicyHint" ->
            [ok |-> RegoModuleLoads(hint.module),
             v |-> [NoValidator EXCEPT !.kind = "RegoValidator",
                                       !.module = hint.module,
                                       !.queries_str = hint.queries_str]]
      [] hint.kind = "Cql2FilterHint" ->
            [ok |-> TRUE,
             v |-> [NoValidator EXCEPT !.kind = "Cql2Validator",
                                       !.queries_cql = hint.queries_cql]]
      [] OTHER -> [ok |-> FALSE, v |-> NoValidator]

\* hint_instance.validator(): ok is FALSE when the call raises
Validator(hint) ==
    CASE hint.kind = "JSONSchemaHint" ->
            LET schema == IF hint.parent_workflow THEN GetInputsJsonSchema
                          ELSE hint.json_schema
            IN [ok |-> SchemaLoads(schema),
                v |-> [NoValidator EXCEPT !.kind = "JSONSchemaValidator",
                                          !.schema = schema]]
      [] hint.kind = "RegoPolicyHint" ->
            [ok |-> RegoModuleLoads(hint.module),
             v |-> [NoValidator EXCEPT !.kind = "RegoValidator",
                                       !.module = hint.module,
                                       !.queries_str = hint.queries_str]]
      [] hint.kind = "Cql2FilterHint" ->
            [ok |-> TRUE,
             v |-> [NoValidator EXCEPT !.kind = "Cql2Validator",
                                       !.queries_cql = hint.queries_cql]]
      [] OTHER -> [ok |-> FALSE, v |-> NoValidator]

\* validator.validate_inputs(inputs), by the class of the validator
ValidateInputs(v, d) ==
    CASE v.kind = "JSONSchemaValidator" -> JSONSchemaValidateInputs(v.schema, d)
      [] v.kind = "RegoValidator" -> RegoValidateInputs(v.module, v.queries_str, d)
      [] v.kind = "Cql2Validator" -> Cql2ValidateInputs(v.queries_cql, d)
      [] OTHER -> Raise

(* ------------------------------- inputs ------------------------------- *)

RECURSIVE SeqsUpTo(_, _)
SeqsUpTo(S, len) ==
    IF len = 0 THEN {<< >>}
    ELSE LET shorter == SeqsUpTo(S, len - 1)
         IN shorter \cup {Append(q, x) : q \in {r \in shorter : Len(r) = len - 1},
                                          x \in S}

Eoap(name) == <<"eoap", ":", name>>

AreaQueries == <<Cql2Query("q1", "t_area", "out of area"),
                 Cql2Query("q2", "j_fail", "never")>>

\* The hint records the workflows of the model are made of
HintRecords ==
    { \* a schema hint with an inline schema
      HintRecord(TRUE, {"class", "json_schema"}, Eoap("JSONSchemaHint"),
                 "sInline", "", "none", << >>, << >>, NoQuery),
      \* a policy hint
      HintRecord(TRUE, {"class", "module", "queries"}, Eoap("RegoPolicyHint"),
                 "", "modOk", "strs", <<"deny", "warn">>, << >>, NoQuery),
      \* a policy hint whose module the interpreter rejects
      HintRecord(TRUE, {"class", "module", "queries"}, Eoap("RegoPolicyHint"),
                 "", "modBad", "strs", <<"deny">>, << >>, NoQuery),
      \* a policy hint without its module
      HintRecord(TRUE, {"class", "queries"}, Eoap("RegoPolicyHint"),
                 "", "", "strs", <<"deny">>, << >>, NoQuery),
      \* a filter hint
      HintRecord(TRUE, {"class", "queries"}, Eoap("Cql2FilterHint"),
                 "", "", "cqls", << >>, AreaQueries, NoQuery),
      \* a filter hint whose predicate crashes the evaluator
      HintRecord(TRUE, {"class", "queries"}, Eoap("Cql2FilterHint"),
                 "", "", "cqls", << >>,
                 <<Cql2Query("q1", "t_crash", "m")>>, NoQuery),
      \* a filter hint whose two queries have the same id
      HintRecord(TRUE, {"class", "queries"}, Eoap("Cql2FilterHint"),
                 "", "", "cqls", << >>,
                 <<Cql2Query("q1", "t_area", "out of area"),
                   Cql2Query("q1", "j_fail", "never")>>, NoQuery),
      \* a record naming another global of the module
      HintRecord(TRUE, {"class", "id", "cql2", "message"}, Eoap("Cql2Query"),
                 "", "", "none", << >>, << >>, Cql2Query("q1", "t_pass", "m")),
      \* a record of the namespace with a name that is not bound
      HintRecord(TRUE, {"class"}, Eoap("Unknown"),
                 "", "", "none", << >>, << >>, NoQuery),
      \* a record of another metadata consumer
      HintRecord(TRUE, {"class"}, <<"cwltool", ":", "Secrets">>,
                 "", "", "none", << >>, << >>, NoQuery),
      \* a discriminator that holds "eoap:" but does not start with it
      HintRecord(TRUE, {"class", "queries"},
                 <<"x-", "eoap", ":", "Cql2FilterHint">>,
                 "", "", "cqls", << >>,
                 <<Cql2Query("q9", "t_pass", "m")>>, NoQuery),
      \* a mapping without a class discriminator
      HintRecord(TRUE, {"queries"}, << >>,
                 "", "", "cqls", << >>, AreaQueries, NoQuery),
      \* an opaque value
      HintRecord(FALSE, {}, << >>, "", "", "none", << >>, << >>, NoQuery) }

Cql2Queries ==
    {Cql2Query(id, e, m) : id \in {"q1", "q2"}, e \in CqlExprs,
                           m \in {"m1", "m2"}}

(* --------------------------- _scan_workflow --------------------------- *)

NotReturned == [returned |-> FALSE, none |-> FALSE, value |-> << >>]

\* a function body that ends without a return statement gives None
ReturnsNothing == [returned |-> TRUE, none |-> TRUE, value |-> << >>]

Pending == [kind |-> "pending", type |-> "", status |-> 0, title |-> "",
            errors |-> NoErrors]

\* no validator instance is kept
CallIdle ==
    /\ instance = NoValidator
    /\ rego_input = "unset"
    /\ calls = << >>

\* the workflow keeps the types it was loaded with
WfIdle ==
    /\ wf_types = "tA"
    /\ built_types = << >>

CqlIdle ==
    /\ self_queries = << >>
    /\ data = "d1"
    /\ vpc = "idle"
    /\ n = 1
    /\ errors_list = << >>
    /\ parsed = {}
    /\ evaluated = {}
    /\ result = Pending

ScanIdle ==
    /\ hints = << >>
    /\ inputs = "d1"
    /\ pc = "idle"
    /\ i = 1
    /\ assertion_hints = << >>
    /\ hint_from = << >>
    /\ validators = << >>
    /\ built_from = << >>
    /\ build_tried = {}
    /\ executed = << >>
    /\ outcomes = << >>
    /\ ret = NotReturned
    /\ raised = ""

\* _scan_workflow(wf, inputs) is entered
Init ==
    /\ hints \in SeqsUpTo(HintRecords, MaxHints)
    /\ inputs \in Data
    /\ pc = "extract"
    /\ i = 1
    /\ assertion_hints = << >>
    /\ hint_from = << >>
    /\ validators = << >>
    /\ built_from = << >>
    /\ build_tried = {}
    /\ executed = << >>
    /\ outcomes = << >>
    /\ ret = NotReturned
    /\ raised = ""
    /\ CqlIdle
    /\ WfIdle
    /\ CallIdle

\* extract_assertion_hints: one iteration of "for hint in workflow.hints"
ExtractHint ==
    /\ pc = "extract"
    /\ i <= Len(hints)
    /\ LET step == ExtractStep(assertion_hints, hints[i])
       IN IF step.exc # ""
          THEN /\ pc' = "raised"
               /\ raised' = step.exc
               /\ UNCHANGED <<i, assertion_hints, hint_from>>
          ELSE /\ assertion_hints' = step.hints
               /\ hint_from' = IF Len(step.hints) > Len(assertion_hints)
                               THEN Append(hint_from, i) ELSE hint_from
               /\ i' = i + 1
               /\ UNCHANGED <<pc, raised>>
    /\ UNCHANGED <<hints, inputs, validators, built_from, build_tried,
                   executed, outcomes, ret>>
    /\ UNCHANGED cqlVars
    /\ UNCHANGED <<wfVars, callVars>>

\* extract_assertion_hints returns assertion_hints (also when
\* workflow.hints is empty, after the debug message)
ExtractReturn ==
    /\ pc = "extract"
    /\ i > Len(hints)
    /\ pc' = "prepare"
    /\ i' = 1
    /\ UNCHANGED <<hints, inputs, assertion_hints, hint_from, validators, built_from,
                   build_tried, executed, outcomes, ret, raised>>
    /\ UNCHANGED cqlVars
    /\ UNCHANGED <<wfVars, callVars>>

\* the "prepare" loop: one hint_instance.validator() inside try/except
SetupValidator ==
    /\ pc = "prepare"
    /\ i <= Len(assertion_hints)
    /\ LET b == Validator(assertion_hints[i])
       IN /\ validators' = IF b.ok THEN Append(validators, b.v) ELSE validators
          /\ built_from' = IF b.ok THEN Append(built_from, i) ELSE built_from
    /\ build_tried' = build_tried \cup {i}
    /\ i' = i + 1
    /\ UNCHANGED <<hints, inputs, pc, assertion_hints, hint_from, executed,
                   outcomes, ret, raised>>
    /\ UNCHANGED cqlVars
    /\ UNCHANGED <<wfVars, callVars>>

\* SetupOver taken as soon as one validator is built
SetupOverEarly ==
    /\ pc = "prepare"
    /\ validators # << >>
    /\ pc' = "validate"
    /\ i' = 1
    /\ UNCHANGED <<hints, inputs, assertion_hints, hint_from, validators, built_from,
                   build_tried, executed, outcomes, ret, raised>>
    /\ UNCHANGED cqlVars
    /\ UNCHANGED <<wfVars, callVars>>

\* "if validators:" is true, the validation loop starts
SetupOver ==
    /\ pc = "prepare"
    /\ i > Len(assertion_hints)
    /\ validators # << >>
    /\ pc' = "validate"
    /\ i' = 1
    /\ UNCHANGED <<hints, inputs, assertion_hints, hint_from, validators, built_from,
                   build_tried, executed, outcomes, ret, raised>>
    /\ UNCHANGED cqlVars
    /\ UNCHANGED <<wfVars, callVars>>

\* "if validators:" is false: "No Validators configured", the function ends
NoValidators ==
    /\ pc = "prepare"
    /\ i > Len(assertion_hints)
    /\ validators = << >>
    /\ pc' = "done"
    /\ ret' = ReturnsNothing
    /\ UNCHANGED <<hints, inputs, i, assertion_hints, hint_from, validators, built_from,
                   build_tried, executed, outcomes, raised>>
    /\ UNCHANGED cqlVars
    /\ UNCHANGED <<wfVars, callVars>>

\* one iteration of "for validator in validators"; validate_inputs is
\* called outside any try block, so what it raises leaves _scan_workflow
ExecuteValidator ==
    /\ pc = "validate"
    /\ i <= Len(validators)
    /\ LET problem_details == ValidateInputs(validators[i], inputs)
       IN /\ executed' = Append(executed, [validator |-> validators[i],
                                           data |-> inputs,
                                           from |-> built_from[i]])
          /\ IF problem_details.kind = "raise"
             THEN /\ pc' = "raised"
                  /\ raised' = "EngineFailure"
                  /\ UNCHANGED <<i, outcomes>>
             ELSE /\ outcomes' = Append(outcomes, problem_details)
                  /\ i' = i + 1
                  /\ UNCHANGED <<pc, raised>>
    /\ UNCHANGED <<hints, inputs, assertion_hints, hint_from, validators, built_from,
                   build_tried, ret>>
    /\ UNCHANGED cqlVars
    /\ UNCHANGED <<wfVars, callVars>>

\* the validation loop is over, the function ends
ScanReturn ==
    /\ pc = "validate"
    /\ i > Len(validators)
    /\ pc' = "done"
    /\ ret' = ReturnsNothing
    /\ UNCHANGED <<hints, inputs, i, assertion_hints, hint_from, validators, built_from,
                   build_tried, executed, outcomes, raised>>
    /\ UNCHANGED cqlVars
    /\ UNCHANGED <<wfVars, callVars>>

Next ==
    \/ ExtractHint
    \/ ExtractReturn
    \/ SetupValidator
    \/ SetupOver
    \/ NoValidators
    \/ ExecuteValidator
    \/ ScanReturn

Spec == Init /\ [][Next]_vars

(* ------------------- Cql2Validator.validate_inputs -------------------- *)

\* Cql2Validator(queries).validate_inputs(data) is entered
CqlInit ==
    /\ self_queries \in SeqsUpTo(Cql2Queries, MaxQueries)
    /\ data \in Data
    /\ vpc = "loop"
    /\ n = 1
    /\ errors_list = << >>
    /\ parsed = {}
    /\ evaluated = {}
    /\ result = Pending
    /\ ScanIdle
    /\ WfIdle
    /\ CallIdle

\* one iteration of "for filter in self.queries"
FilterStep ==
    /\ vpc = "loop"
    /\ n <= Len(self_queries)
    /\ LET step == Cql2Step(errors_list, self_queries[n], data)
       IN /\ parsed' = IF step.parsed THEN parsed \cup {n} ELSE parsed
          /\ evaluated' = IF step.evaluated THEN evaluated \cup {n} ELSE evaluated
          /\ IF step.raise
             THEN /\ vpc' = "raised"
                  /\ result' = Raise
                  /\ UNCHANGED <<n, errors_list>>
             ELSE /\ errors_list' = step.errors
                  /\ n' = n + 1
                  /\ UNCHANGED <<vpc, result>>
    /\ UNCHANGED <<self_queries, data>>
    /\ UNCHANGED scanVars
    /\ UNCHANGED <<wfVars, callVars>>

\* "if errors_list: return BusinessRuleViolation(...)" / "return None"
FilterReturn ==
    /\ vpc = "loop"
    /\ n > Len(self_queries)
    /\ result' = ReturnOf(errors_list)
    /\ vpc' = "done"
    /\ UNCHANGED <<self_queries, data, n, errors_list, parsed, evaluated>>
    /\ UNCHANGED scanVars
    /\ UNCHANGED <<wfVars, callVars>>

CqlNext == FilterStep \/ FilterReturn

SpecCql == CqlInit /\ [][CqlNext]_vars

(* ------------- validate_inputs called again and again ----------------- *)

RegoQueryNames == {"deny", "warn", "allow", "broken"}

CallQueries ==
    {Cql2Query(id, e, IF id = "q1" THEN "m1" ELSE "m2") :
        id \in {"q1", "q2"}, e \in CqlExprs}

\* RegoValidator(module, queries) and Cql2Validator(queries) instances
Instances ==
    {[NoValidator EXCEPT !.kind = "RegoValidator", !.module = "modOk",
                         !.queries_str = qs] :
        qs \in SeqsUpTo(RegoQueryNames, MaxQueries)}
    \cup
    {[NoValidator EXCEPT !.kind = "Cql2Validator", !.queries_cql = qs] :
        qs \in SeqsUpTo(CallQueries, MaxQueries)}

\* a validator has been constructed; nothing was validated yet
CallInit ==
    /\ instance \in Instances
    /\ rego_input = "unset"
    /\ calls = << >>
    /\ ScanIdle
    /\ CqlIdle
    /\ WfIdle

\* RegoValidator.validate_inputs(d) on the instance
RegoCall ==
    /\ instance.kind = "RegoValidator"
    /\ Len(calls) < MaxCalls
    /\ \E d \in Data :
        /\ rego_input' = SetInput(rego_input, d)
        /\ calls' = Append(calls,
               [data |-> d,
                result |-> RegoLoop(instance.module, instance.queries_str, 1,
                                    << >>, rego_input')])
    /\ UNCHANGED instance
    /\ UNCHANGED <<scanVars, cqlVars, wfVars>>

\* Cql2Validator.validate_inputs(d) on the instance
CqlCall ==
    /\ instance.kind = "Cql2Validator"
    /\ Len(calls) < MaxCalls
    /\ \E d \in Data :
        calls' = Append(calls,
            [data |-> d, result |-> Cql2ValidateInputs(instance.queries_cql, d)])
    /\ UNCHANGED <<instance, rego_input>>
    /\ UNCHANGED <<scanVars, cqlVars, wfVars>>

CallNext == RegoCall \/ CqlCall

SpecCalls == CallInit /\ [][CallNext]_vars

(* ------------- JSONSchemaHint objects and their validator() ----------- *)

\* JSONSchemaHint(parent_workflow=..., json_schema=...) objects: with or
\* without a workflow reference, with a schema, a schema the validator
\* rejects, or the default {}
SchemaHints ==
    {[NoHint EXCEPT !.kind = "JSONSchemaHint", !.parent_workflow = p,
                    !.json_schema = js] :
        p \in BOOLEAN, js \in {"sInline", "sBad", "sEmpty"}}

\* the hints have been constructed, none has built its validator yet
BuildInit ==
    /\ assertion_hints \in SeqsUpTo(SchemaHints, MaxHints) \ {<< >>}
    /\ wf_types = "tA"
    /\ built_types = << >>
    /\ i = 1
    /\ validators = << >>
    /\ built_from = << >>
    /\ build_tried = {}
    /\ pc = "prepare"
    /\ hints = << >>
    /\ inputs = "d1"
    /\ hint_from = << >>
    /\ executed = << >>
    /\ outcomes = << >>
    /\ ret = NotReturned
    /\ raised = ""
    /\ CqlIdle
    /\ CallIdle

\* the owner of the workflow changes its type declarations
ChangeTypes ==
    /\ pc = "prepare"
    /\ i <= Len(assertion_hints)
    /\ wf_types' \in WorkflowTypes \ {wf_types}
    /\ UNCHANGED built_types
    /\ UNCHANGED <<scanVars, cqlVars, callVars>>

\* validator() of the next hint is called
BuildValidator ==
    /\ pc = "prepare"
    /\ i <= Len(assertion_hints)
    /\ LET b == Validator(assertion_hints[i])
       IN /\ validators' = IF b.ok THEN Append(validators, b.v) ELSE validators
          /\ built_from' = IF b.ok THEN Append(built_from, i) ELSE built_from
    /\ build_tried' = build_tried \cup {i}
    /\ built_types' = Append(built_types, wf_types)
    /\ i' = i + 1
    /\ UNCHANGED wf_types
    /\ UNCHANGED <<hints, inputs, pc, assertion_hints, hint_from, executed,
                   outcomes, ret, raised>>
    /\ UNCHANGED <<cqlVars, callVars>>

BuildNext == ChangeTypes \/ BuildValidator

SpecBuild == BuildInit /\ [][BuildNext]_vars

(* ------------------------------- claims ------------------------------- *)

\* extract_assertion_hints has returned to _scan_workflow
Extracted == pc \in {"prepare", "validate", "done"} \/ raised = "EngineFailure"

\* the run of _scan_workflow is over, by a return or by an exception
Terminated == pc \in {"done", "raised"}

\* C1: extract_assertion_hints never raises: a mapping that misses a
\* required field, whichever it is, is dropped and the records after it
\* are still resolved, so no exception of the resolver ends the run.
C1_ResolverNeverRaises ==
    /\ raised # "KeyError"
    /\ Terminated => Extracted

\* C2: a validate_inputs that raises is attributed to its validator only:
\* when the run is over, every validator after the failing one has been
\* executed with the input mapping too.
C2_EngineFailureIsolated ==
    \A k \in 1..Len(executed) :
        (/\ Terminated
         /\ ValidateInputs(executed[k].validator, executed[k].data).kind = "raise")
            => \A m \in (k + 1)..Len(validators) :
                   /\ m <= Len(executed)
                   /\ executed[m].validator = validators[m]
                   /\ executed[m].data = inputs

\* the hints of the records of hs that resolve, in the order of hs
RECURSIVE ResolvedHints(_)
ResolvedHints(hs) ==
    IF hs = << >> THEN << >>
    ELSE LET r == GetAssertionHintByName(TRUE, Head(hs))
         IN (IF Head(hs).isdict /\ r.hint # NoHint THEN <<r.hint>> ELSE << >>)
            \o ResolvedHints(Tail(hs))

\* C3: the list extract_assertion_hints returns is the resolved hints of
\* the records that resolve, in the order of the records, one per record:
\* the records of origin are strictly increasing and the list is the
\* order-preserving filter of workflow.hints.
C3_OrderPreserving ==
    Extracted =>
        /\ assertion_hints = ResolvedHints(hints)
        /\ Len(hint_from) = Len(assertion_hints)
        /\ \A k \in 1..Len(hint_from) :
               /\ hint_from[k] \in 1..Len(hints)
               /\ assertion_hints[k]
                      = GetAssertionHintByName(TRUE, hints[hint_from[k]]).hint
               /\ k > 1 => hint_from[k - 1] < hint_from[k]

C3_Witness ==
    /\ pc = "prepare"
    /\ Len(hints) = 3
    /\ hint_from = <<1, 3>>
    /\ assertion_hints[1] # assertion_hints[2]

\* C4: every object extract_assertion_hints returns is a JSONSchemaHint, a
\* RegoPolicyHint or a Cql2FilterHint; a record with another bare kind
\* name yields nothing.
C4_OnlyKnownKinds ==
    \A k \in 1..Len(assertion_hints) : assertion_hints[k].kind \in HintKinds

\* C5: only a record whose class discriminator starts with "eoap:" is
\* resolved; every other record yields no hint.
C5_OnlyPrefixedRecords ==
    \A k \in 1..Len(hint_from) :
        StartsWith(hints[hint_from[k]].class, NamespacePrefix)

\* C6: _scan_workflow returns the ordered sequence of outcomes, one entry
\* per built validator (its Problem Report or none), and the empty
\* sequence for a workflow with no hints.
C6_ReturnsOutcomes ==
    pc = "done" =>
        /\ ret.returned
        /\ ~ret.none
        /\ ret.value = outcomes
        /\ Len(ret.value) = Len(validators)

\* C7: when the validator() of a resolved hint raises, the hint is
\* skipped and the run goes on: a build is attempted for every other
\* resolved hint and every built validator is run.
C7_BuildFailureSkipped ==
    (Terminated /\ Extracted /\ Len(validators) < Cardinality(build_tried)) =>
        /\ build_tried = 1..Len(assertion_hints)
        /\ \A k \in 1..Len(validators) :
               \E m \in 1..Len(executed) :
                   /\ executed[m].from = built_from[k]
                   /\ executed[m].data = inputs

\* C8: the validate_inputs invocations of a run are the built validators
\* in hint declaration order, each invoked exactly once with the input
\* mapping of the run.
C8_ExecutionFollowsDeclaration ==
    (Terminated /\ Extracted) =>
        /\ Len(executed) = Len(validators)
        /\ \A k \in 1..Len(executed) :
               /\ executed[k].validator = validators[k]
               /\ executed[k].from = built_from[k]
               /\ executed[k].data = inputs
               /\ k > 1 => executed[k - 1].from < executed[k].from

\* the expression of query q reaches a parser and the parser accepts it
ParsesOk(q) == CqlShape(q.cql2) \in {"str", "dict"} /\ CqlParses(q.cql2)

\* C9: for a query whose expression parses the predicate is evaluated on
\* the input mapping; a false predicate adds exactly one Error Detail,
\* pointer = the query id and detail = the query's message, a true one
\* adds nothing, and a validator whose queries are all true returns none.
C9_PredicateDecides ==
    /\ [][(vpc = "loop" /\ n <= Len(self_queries) /\ ParsesOk(self_queries[n]))
            => /\ n \in evaluated'
               /\ CqlPredicate(self_queries[n].cql2, data) = "false"
                    => /\ errors_list' = Append(errors_list,
                              [pointer |-> self_queries[n].id,
                               detail |-> self_queries[n].message])
                       /\ n' = n + 1
               /\ CqlPredicate(self_queries[n].cql2, data) = "true"
                    => /\ errors_list' = errors_list
                       /\ n' = n + 1]_vars
    /\ [](vpc = "done" =>
            /\ result.kind \in {"none", "report"}
            /\ result.errors = errors_list
            /\ (\A k \in 1..Len(self_queries) :
                    /\ ParsesOk(self_queries[k])
                    /\ CqlPredicate(self_queries[k].cql2, data) = "true")
                 => result.kind = "none")

C9_Witness ==
    /\ vpc = "done"
    /\ Len(self_queries) = 2
    /\ evaluated = {1, 2}
    /\ CqlPredicate(self_queries[1].cql2, data) = "true"
    /\ result.kind = "report"
    /\ result.errors = <<[pointer |-> self_queries[2].id,
                          detail |-> self_queries[2].message]>>

\* C10: a query whose expression fails to parse, or whose cql2 value is
\* neither a string nor a mapping, adds exactly one Error Detail with
\* pointer = its id and no violation entry, does not raise, and the loop
\* goes on: every other query is still parsed and evaluated (the call ends
\* early only when the evaluation of a parsed query raises).
C10_QueriesIndependent ==
    /\ [][(vpc = "loop" /\ n <= Len(self_queries) /\ ~ParsesOk(self_queries[n]))
            => /\ vpc' = "loop"
               /\ n' = n + 1
               /\ Len(errors_list') = Len(errors_list) + 1
               /\ SubSeq(errors_list', 1, Len(errors_list)) = errors_list
               /\ errors_list'[Len(errors_list')].pointer = self_queries[n].id
               /\ errors_list'[Len(errors_list')].detail
                      \in {ParseErrorText, ParseErrorJson, FormatError}
               /\ n \notin evaluated']_vars
    /\ [](\A k \in 1..Len(self_queries) :
            (k < n \/ vpc = "done") =>
                /\ CqlShape(self_queries[k].cql2) \in {"str", "dict"}
                       => k \in parsed
                /\ ParsesOk(self_queries[k]) => k \in evaluated)
    /\ [](vpc = "raised" =>
            /\ ParsesOk(self_queries[n])
            /\ CqlPredicate(self_queries[n].cql2, data) = "raise")

C10_Witness ==
    /\ vpc = "done"
    /\ Len(self_queries) = 2
    /\ ~ParsesOk(self_queries[1])
    /\ parsed = {1, 2}
    /\ evaluated = {2}
    /\ Len(result.errors) = 2
    /\ result.errors[1].pointer = self_queries[1].id

\* the Error Details of the rows of one policy query: one per row that
\* has an expression, its first expression as the detail
RECURSIVE RowDetails(_, _)
RowDetails(rows, query) ==
    IF rows = << >> THEN << >>
    ELSE (IF Head(rows) # << >>
          THEN <<[pointer |-> query, detail |-> Head(Head(rows))]>>
          ELSE << >>)
         \o RowDetails(Tail(rows), query)

\* the Error Details one query of validator v gives on input d
DetailsOf(v, k, d) ==
    IF v.kind = "RegoValidator"
    THEN RowDetails(RegoQuery(v.module, v.queries_str[k], d).rows,
                    v.queries_str[k])
    ELSE LET q == v.queries_cql[k]
         IN CASE CqlShape(q.cql2) = "other" ->
                    <<[pointer |-> q.id, detail |-> FormatError]>>
              [] CqlShape(q.cql2) = "str" /\ ~CqlParses(q.cql2) ->
                    <<[pointer |-> q.id, detail |-> ParseErrorText]>>
              [] CqlShape(q.cql2) = "dict" /\ ~CqlParses(q.cql2) ->
                    <<[pointer |-> q.id, detail |-> ParseErrorJson]>>
              [] CqlPredicate(q.cql2, d) = "false" ->
                    <<[pointer |-> q.id, detail |-> q.message]>>
              [] OTHER -> << >>

NumQueries(v) ==
    IF v.kind = "RegoValidator" THEN Len(v.queries_str) ELSE Len(v.queries_cql)

\* the engine fails on query k of validator v with input d
EngineFails(v, k, d) ==
    IF v.kind = "RegoValidator"
    THEN RegoQuery(v.module, v.queries_str[k], d).raise
    ELSE /\ ParsesOk(v.queries_cql[k])
         /\ CqlPredicate(v.queries_cql[k].cql2, d) = "raise"

CallRaises(v, d) == \E k \in 1..NumQueries(v) : EngineFails(v, k, d)

\* the Error Details of queries k.. of v on d, in declaration order
RECURSIVE DetailsFrom(_, _, _)
DetailsFrom(v, k, d) ==
    IF k > NumQueries(v) THEN << >>
    ELSE DetailsOf(v, k, d) \o DetailsFrom(v, k + 1, d)

\* C11: RegoValidator.validate_inputs evaluates each declared query with
\* the input mapping as the interpreter's input; every result row with an
\* expression gives exactly one Error Detail, pointer = the query string
\* and detail = the row's first expression; a row without expressions and
\* a query without rows give nothing; no row at all gives none.
C11_RowsBecomeDetails ==
    \A c \in 1..Len(calls) :
        (instance.kind = "RegoValidator"
         /\ ~CallRaises(instance, calls[c].data)) =>
            LET details == DetailsFrom(instance, 1, calls[c].data)
            IN /\ calls[c].result.errors = details
               /\ calls[c].result.kind = "none" <=> details = << >>
               /\ \A e \in 1..Len(calls[c].result.errors) :
                      \E k \in 1..Len(instance.queries_str) :
                          calls[c].result.errors[e].pointer
                              = instance.queries_str[k]

C11_Witness ==
    /\ instance.kind = "RegoValidator"
    /\ instance.queries_str = <<"warn", "deny">>
    /\ Len(calls) = 2
    /\ calls[1].data = "d1"
    /\ calls[1].result.errors = <<[pointer |-> "warn", detail |-> "w1"],
                                  [pointer |-> "warn", detail |-> "w2"]>>
    /\ calls[2].data = "d2"
    /\ Len(calls[2].result.errors) = 3
    /\ calls[2].result.errors[3] = [pointer |-> "deny", detail |-> "too big"]

\* the queries of v that input d violates
ViolatedQueries(v, d) ==
    {k \in 1..NumQueries(v) :
        IF v.kind = "RegoValidator" THEN DetailsOf(v, k, d) # << >>
        ELSE /\ ParsesOk(v.queries_cql[k])
             /\ CqlPredicate(v.queries_cql[k].cql2, d) = "false"}

IsViolationEntry(e) ==
    e.detail \notin {ParseErrorText, ParseErrorJson, FormatError}

FixedReportFields(r) ==
    /\ r.type = "https://problems-registry.smartbear.com/business-rule-violation"
    /\ r.status = 422
    /\ r.title = "Business Rule Violation"

\* C12 as stated: when an assertion fails the result is a
\* business-rule-violation report whose errors list holds one Error Detail
\* per violated query, in the order the queries were declared.
C12_OneDetailPerQuery ==
    \A c \in 1..Len(calls) :
        LET d == calls[c].data
            r == calls[c].result
            entries == SelectSeq(r.errors, IsViolationEntry)
        IN (~CallRaises(instance, d) /\ ViolatedQueries(instance, d) # {}) =>
               /\ r.kind = "report"
               /\ FixedReportFields(r)
               /\ Len(entries) = Cardinality(ViolatedQueries(instance, d))

\* C12 as amended: when an assertion fails the result is a
\* business-rule-violation report (type, status 422 and title fixed)
\* whose errors list holds the Error Details of the queries in the order
\* the queries were declared: one per violated filter query, and one per
\* result row with an expression for a policy query, so that a policy
\* query with several rows gives several Error Details.
C12_DetailsInDeclarationOrder ==
    \A c \in 1..Len(calls) :
        LET d == calls[c].data
            r == calls[c].result
        IN (~CallRaises(instance, d) /\ ViolatedQueries(instance, d) # {}) =>
               /\ r.kind = "report"
               /\ FixedReportFields(r)
               /\ r.errors = DetailsFrom(instance, 1, d)
               /\ instance.kind = "Cql2Validator" =>
                      Len(SelectSeq(r.errors, IsViolationEntry))
                          = Cardinality(ViolatedQueries(instance, d))

C12_Witness ==
    /\ instance.kind = "Cql2Validator"
    /\ Len(instance.queries_cql) = 2
    /\ Len(calls) >= 1
    /\ ViolatedQueries(instance, calls[1].data) = {1, 2}
    /\ instance.queries_cql[1].id # instance.queries_cql[2].id
    /\ calls[1].result.kind = "report"
    /\ Len(calls[1].result.errors) = 2

\* C13: validate_inputs returns none exactly when no Error Detail was
\* produced, and a report it returns has a non-empty errors list: a report
\* with an empty errors list is never returned.
C13_NoneIffNoDetail ==
    \A c \in 1..Len(calls) :
        LET r == calls[c].result
            produced == DetailsFrom(instance, 1, calls[c].data)
        IN /\ r.kind \in {"none", "report", "raise"}
           /\ r.kind = "raise" <=> CallRaises(instance, calls[c].data)
           /\ r.kind = "report" => r.errors # << >>
           /\ r.kind # "raise" =>
                  /\ r.kind = "none" <=> produced = << >>
                  /\ r.errors = produced

C13_Witness ==
    /\ Len(calls) = 2
    /\ calls[1].result.kind = "none"
    /\ calls[2].result.kind = "report"
    /\ calls[2].result.errors # << >>

\* C14: what validate_inputs(d) gives depends on the construction
\* parameters and d only: two calls with the same input give equal
\* results, and a call gives what a fresh instance gives, whatever input
\* the call before it had.
C14_NoStateBetweenCalls ==
    \A a \in 1..Len(calls) :
        /\ calls[a].result = ValidateInputs(instance, calls[a].data)
        /\ \A b \in 1..Len(calls) :
               calls[a].data = calls[b].data
                   => calls[a].result = calls[b].result

C14_Witness ==
    /\ instance.kind = "RegoValidator"
    /\ Len(calls) = 2
    /\ calls[1].data # calls[2].data
    /\ calls[1].result # calls[2].result
    /\ rego_input = calls[2].data

\* C15: a resolved schema, policy or filter hint that is serialised to
\* its declaration form and passed through the resolver again comes back
\* as a hint of the same kind with equal parameters.
C15_RoundTrip ==
    \A k \in 1..Len(assertion_hints) :
        assertion_hints[k].kind \in HintKinds =>
            LET again == GetAssertionHintByName(TRUE,
                                                SerModel(assertion_hints[k]))
            IN /\ again.exc = ""
               /\ again.hint.kind = assertion_hints[k].kind
               /\ again.hint = assertion_hints[k]

\* every record of workflow.hints is a mapping of the eoap namespace
\* that the resolver answers with no hint
AllFailedToResolve ==
    /\ hints # << >>
    /\ \A k \in 1..Len(hints) :
           /\ hints[k].isdict
           /\ "class" \in hints[k].keys
           /\ IsCandidate(hints[k].class)
           /\ GetAssertionHintByName(TRUE, hints[k]) = [exc |-> "", hint |-> NoHint]

\* C16: a workflow without hints resolves to the empty sequence without
\* error, and what extract_assertion_hints gives _scan_workflow for a
\* workflow whose hints all failed to resolve differs from that.
C16_NoHintsDistinguishable ==
    /\ (Extracted /\ hints = << >>) =>
           (assertion_hints = << >> /\ raised = "")
    /\ (Extracted /\ AllFailedToResolve) =>
           <<assertion_hints, raised>> # << << >>, "" >>

\* C17: in one run of a filter validator the queries have pairwise
\* distinct ids and no two Error Details carry the same pointer.
C17_PointersUnambiguous ==
    \A k \in 1..Len(outcomes) :
        executed[k].validator.kind = "Cql2Validator" =>
            LET qs == executed[k].validator.queries_cql
                es == outcomes[k].errors
            IN /\ \A a, b \in 1..Len(qs) : a # b => qs[a].id # qs[b].id
               /\ \A a, b \in 1..Len(es) :
                      a # b => es[a].pointer # es[b].pointer

\* the schema the converter derives from workflow types t
SchemaOfTypes(t) == IF t = "tA" THEN "sWorkflow" ELSE "sWorkflowB"

\* C18: the validator a schema hint builds has, when the hint carries a
\* workflow reference, the schema derived from the types the workflow has
\* when validator() is called, whatever they were when the hint was
\* constructed, and otherwise the literal json_schema of the hint.
C18_SchemaChosenAtBuild ==
    \A j \in 1..Len(validators) :
        LET hint == assertion_hints[built_from[j]]
        IN /\ validators[j].kind = "JSONSchemaValidator"
           /\ validators[j].schema =
                  IF hint.parent_workflow
                  THEN SchemaOfTypes(built_types[built_from[j]])
                  ELSE hint.json_schema

\* a hint with a workflow reference built after the types changed, and a
\* hint without one built from its literal schema
C18_Witness ==
    /\ Len(validators) = 2
    /\ built_from = <<1, 2>>
    /\ assertion_hints[1].parent_workflow
    /\ built_types[1] = "tB"
    /\ validators[1].schema = "sWorkflowB"
    /\ ~assertion_hints[2].parent_workflow
    /\ validators[2].schema = "sInline"

AnnotationNames ==
    {<<"eoap.ogc.org/inputs-json-schema">>,
     <<"eoap.ogc.org/inputs-rego-policy">>,
     <<"eoap.ogc.org/inputs-cql2-filter">>}

\* C19: the annotation of every hint the resolver returns is the constant
\* of its kind and equals the class discriminator of the record the hint
\* was resolved from.
C19_AnnotationIsLookupName ==
    \A k \in 1..Len(assertion_hints) :
        assertion_hints[k].kind \in HintKinds =>
            /\ Annotation(assertion_hints[k]) \in AnnotationNames
            /\ Annotation(assertion_hints[k]) = hints[hint_from[k]].class

\* C20: every object extract_assertion_hints returns carries the
\* workflow as its parent_workflow, and the validator of a schema hint is
\* built from the workflow-derived schema, never from the inline
\* json_schema of the declaration.
C20_ParentWorkflowCarried ==
    /\ \A k \in 1..Len(assertion_hints) : assertion_hints[k].parent_workflow
    /\ \A j \in 1..Len(validators) :
           assertion_hints[built_from[j]].kind = "JSONSchemaHint" =>
               /\ validators[j].schema = GetInputsJsonSchema
               /\ validators[j].schema # hints[hint_from[built_from[j]]].json_schema

\* C21: _scan_workflow has two phases: when a validate_inputs is invoked
\* a build has been attempted for every resolved hint, and once a
\* validate_inputs has been invoked no validator is built any more.
C21_TwoPhase ==
    [][ /\ executed' # executed =>
               /\ build_tried = 1..Len(assertion_hints)
               /\ validators' = validators
        /\ executed # << >> =>
               /\ validators' = validators
               /\ built_from' = built_from
               /\ build_tried' = build_tried ]_vars

\* two validators have run after three build attempts, one of which failed
C21_Witness ==
    /\ Len(assertion_hints) = 3
    /\ build_tried = {1, 2, 3}
    /\ Len(validators) = 2
    /\ Len(executed) = 2

\* the mapping records of a hints list, in their order
OnlyMappings(hs) == SelectSeq(hs, LAMBDA h : h.isdict)

\* C22: an element of workflow.hints that is not a mapping is skipped
\* without raising: the step over it leaves the resolved list as it is and
\* goes on to the next element, and the list resolved so far is what the
\* mapping records alone resolve to, in their order.
C22_OpaqueSkipped ==
    [][ /\ (pc = "extract" /\ i <= Len(hints) /\ ~hints[i].isdict) =>
               /\ assertion_hints' = assertion_hints
               /\ hint_from' = hint_from
               /\ raised' = ""
               /\ pc' = "extract"
               /\ i' = i + 1
        /\ pc' = "extract" =>
               assertion_hints'
                   = ResolvedHints(OnlyMappings(SubSeq(hints', 1, i' - 1)))
        /\ \A k \in 1..Len(hint_from') : hints'[hint_from'[k]].isdict ]_vars

\* an opaque element between two records that both resolve
C22_Witness ==
    /\ Extracted
    /\ Len(hints) = 3
    /\ ~hints[2].isdict
    /\ hint_from = <<1, 3>>
    /\ Len(assertion_hints) = 2

====
